---- MODULE Spec2Model ----
(***************************************************************************)
(* Voxel-grid ray traversal of src/common/math.cc: VoxelCasting            *)
(* (Amanatides-Woo parametric traversal), VoxelCastingBresenham and        *)
(* VoxelCastingDDA.  One call of one of the three functions is one         *)
(* behaviour: Init draws the arguments, the Start action runs the code up  *)
(* to the loop, one action runs one loop iteration, and the last action    *)
(* runs the postcondition CHECK_EQ.                                        *)
(*                                                                         *)
(* Coordinates and step_size are integers counted in a common quantum, so  *)
(* floor(p / step_size) is exact integer floor division and the parametric *)
(* distances tMax, tDelta are exact fractions n/d (the float divisions are *)
(* treated as exact).  FLT_MAX is the fraction 1/0, larger than every      *)
(* finite fraction and not smaller than itself.                            *)
(***************************************************************************)
EXTENDS Integers, Sequences, FiniteSets

VARIABLES alg, ray_start, ray_end, nan_start, nan_end, step_size,
          pc, start_voxel, end_voxel, current_voxel, visited_voxels,
          err, mid, i, tMax

vars == <<alg, ray_start, ray_end, nan_start, nan_end, step_size,
          pc, start_voxel, end_voxel, current_voxel, visited_voxels,
          err, mid, i, tMax>>

\* ------------------------------------------------------------------ bounds
\* coordinates of ray_start range over -MaxStart .. 0 (the traversals are
\* invariant under shifts of both endpoints by whole voxels, so the start
\* stays next to the origin, on its negative side where floor and truncation
\* differ)
MaxStart == 1
\* coordinates of ray_end range over -MaxCoord .. MaxCoord
MaxCoord == 2
\* step_size ranges over 1 .. MaxStep
MaxStep == 2
\* lround of a not-a-number yields an unspecified integer, drawn from
\* -MaxNaNIdx .. MaxNaNIdx
MaxNaNIdx == 1

Axes == 1 .. 3
StartCoord == (0 - MaxStart) .. 0
Coord == (0 - MaxCoord) .. MaxCoord
StepSizes == 1 .. MaxStep
NaNIdx == (0 - MaxNaNIdx) .. MaxNaNIdx
Zero3 == <<0, 0, 0>>

\* the longest terminating walk of VoxelCasting takes one step per unit of
\* Manhattan distance between two voxel indices; the loop of the model is
\* cut off one iteration after that
MaxIter == 3 * (MaxStart + MaxCoord) + 1

\* ----------------------------------------------------------------- helpers
Abs(n) == IF n < 0 THEN 0 - n ELSE n

\* faulty variant: the implicit int cast, which rounds toward zero
TruncDiv(p, s) == IF p < 0 THEN 0 - ((0 - p) \div s) ELSE p \div s

\* std::floor(p / step_size) for step_size > 0
FloorDiv(p, s) == p \div s

\* Eigen::Vector3i(std::floor(p[0]/s), std::floor(p[1]/s), std::floor(p[2]/s))
VoxelIndex(p, s) == [a \in Axes |-> FloorDiv(p[a], s)]

\* std::lround(std::floor(p[a] / s)): the floor for a number, an unspecified
\* integer for a not-a-number (the set of the values the call can return)
LroundFloor(p, nan, s) ==
    {v \in [Axes -> NaNIdx \cup {FloorDiv(p[a], s) : a \in Axes}] :
        \A a \in Axes : a \notin nan => v[a] = FloorDiv(p[a], s)}

\* std::isnan(int): the int converts to double, which is never not-a-number
IsNanInt(n) == FALSE

\* Eigen::Vector3f ray = ray_end - ray_start
Ray == [a \in Axes |-> ray_end[a] - ray_start[a]]

\* step_x, step_y, step_z of VoxelCasting
StepDir(a) == IF Ray[a] >= 0 THEN 1 ELSE 0 - 1

\* a quotient n / d with the sign carried by the numerator
Frac(n, d) == IF d < 0 THEN [n |-> 0 - n, d |-> 0 - d] ELSE [n |-> n, d |-> d]

FltMax == [n |-> 1, d |-> 0]

\* x < y on fractions with denominators >= 0 (FLT_MAX is 1/0)
Less(x, y) == x.n * y.d < y.n * x.d

\* tMaxX, tMaxY, tMaxZ before the loop
TMaxInit(sv, ev) ==
    [a \in Axes |->
        IF sv[a] # ev[a]
        THEN Frac((sv[a] + StepDir(a)) * step_size - ray_start[a], Ray[a])
        ELSE FltMax]

\* tDeltaX, tDeltaY, tDeltaZ
TDelta(a) ==
    IF start_voxel[a] # end_voxel[a]
    THEN Frac(step_size * StepDir(a), Ray[a])
    ELSE FltMax

\* x + y on fractions of one denominator; FLT_MAX absorbs
FracAdd(x, y) == IF x.d = 0 \/ y.d = 0 THEN FltMax ELSE [n |-> x.n + y.n, d |-> x.d]

\* the pre-loop shift of VoxelCasting: diff[i]-- on the negative axes
NegDiff(sv, ev) ==
    [a \in Axes |-> IF sv[a] # ev[a] /\ Ray[a] < 0 THEN 0 - 1 ELSE 0]

\* faulty variant: the shifted voxel is pushed whether or not an axis was shifted
FirstPathAlways(sv, cur, neg_ray) == <<sv, cur>>

\* lines 103-107: the start voxel is pushed, and the shifted one only when
\* some axis was shifted
FirstPath(sv, cur, neg_ray) == IF neg_ray THEN <<sv, cur>> ELSE <<sv>>

\* faulty variant: the loop goes on only while some axis is short of its end
ParamContinueShort(cur, ev) == \E a \in Axes : (ev[a] - cur[a]) * StepDir(a) > 0

\* while (end_voxel != current_voxel)
ParamContinue(cur, ev) == cur # ev

\* faulty variant: the z branch of the first comparison steps y
PickAxisSlip(t) ==
    IF Less(t[1], t[2])
    THEN (IF Less(t[1], t[3]) THEN 1 ELSE 2)
    ELSE (IF Less(t[2], t[3]) THEN 2 ELSE 3)

\* the axis the nested comparison of tMaxX, tMaxY, tMaxZ steps
PickAxis(t) ==
    IF Less(t[1], t[2])
    THEN (IF Less(t[1], t[3]) THEN 1 ELSE 3)
    ELSE (IF Less(t[2], t[3]) THEN 2 ELSE 3)

\* faulty variant: the deltas keep their sign
SignedDelta == [a \in Axes |-> end_voxel[a] - start_voxel[a]]

\* dx, dy, dz (Bresenham) and the absolute delta (DDA)
AbsDelta == [a \in Axes |-> Abs(end_voxel[a] - start_voxel[a])]

\* faulty variant: the third axis is left out of the maximum
Max2(d) == IF d[1] > d[2] THEN d[1] ELSE d[2]

Max3(d) ==
    LET m == IF d[1] > d[2] THEN d[1] ELSE d[2]
    IN  IF m > d[3] THEN m ELSE d[3]

\* dm of VoxelCastingBresenham, max_delta of VoxelCastingDDA
DeltaMax == Max3(AbsDelta)

\* sx, sy, sz: x0 < x1 ? 1 : -1
BresStep(a) == IF start_voxel[a] < end_voxel[a] THEN 1 ELSE 0 - 1

\* step of VoxelCastingDDA: delta >= 0 ? 1 : -1
DdaStep(a) == IF end_voxel[a] - start_voxel[a] >= 0 THEN 1 ELSE 0 - 1

\* faulty variant: the error offset without the halving
ErrorOffsetWhole(dm) == dm

\* dm >> 1, the error offset
ErrorOffset(dm) == dm \div 2

\* if (i-- == 0) break;
BresBreak(n) == n = 0

\* faulty variant: x1 <= 0
BresUnderflowLe(e) == e <= 0

\* if (x1 < 0): the accumulator underflows
BresUnderflow(e) == e < 0

\* faulty variant: the accumulator is not refilled after an underflow
BresRefillNone(e, dm) == e

\* x1 += dm after an underflow
BresRefill(e, dm) == IF BresUnderflow(e) THEN e + dm ELSE e

\* if ((error << 1) >= max_delta)
DdaTrigger(e, m) == 2 * e >= m

\* ------------------------------------------------------------------- Init
Idle ==
    /\ pc = "start"
    /\ start_voxel = Zero3
    /\ end_voxel = Zero3
    /\ current_voxel = Zero3
    /\ visited_voxels = <<>>
    /\ err = Zero3
    /\ mid = Zero3
    /\ i = 0
    /\ tMax = [a \in Axes |-> FltMax]

\* a call with finite endpoints
Init ==
    /\ alg \in {"param", "bres", "dda"}
    /\ ray_start \in [Axes -> StartCoord]
    /\ ray_end \in [Axes -> Coord]
    /\ nan_start = {}
    /\ nan_end = {}
    /\ step_size \in StepSizes
    /\ Idle

\* a call in which at least one coordinate is not-a-number (the coordinate
\* itself is then immaterial and kept 0)
InitNaN ==
    /\ alg \in {"bres", "dda"}
    /\ nan_start \in SUBSET Axes
    /\ nan_end \in SUBSET Axes
    /\ nan_start \cup nan_end # {}
    /\ ray_start \in {p \in [Axes -> StartCoord] : \A a \in nan_start : p[a] = 0}
    /\ ray_end \in {p \in [Axes -> Coord] : \A a \in nan_end : p[a] = 0}
    /\ step_size \in StepSizes
    /\ Idle

Inputs == <<alg, ray_start, ray_end, nan_start, nan_end, step_size>>

\* ------------------------------------------------------------ VoxelCasting
\* lines 40-107: indices, early return, tMax, the pre-loop shift
ParamStart ==
    /\ alg = "param"
    /\ pc = "start"
    /\ LET sv == VoxelIndex(ray_start, step_size)
           ev == VoxelIndex(ray_end, step_size)
           diff == NegDiff(sv, ev)
           neg_ray == \E a \in Axes : diff[a] # 0
           cur == [a \in Axes |-> sv[a] + diff[a]]
       IN  /\ start_voxel' = sv
           /\ end_voxel' = ev
           /\ IF sv = ev
              THEN /\ visited_voxels' = <<sv>>
                   /\ current_voxel' = sv
                   /\ tMax' = tMax
                   /\ pc' = "done"
              ELSE /\ visited_voxels' = FirstPath(sv, cur, neg_ray)
                   /\ current_voxel' = cur
                   /\ tMax' = TMaxInit(sv, ev)
                   /\ pc' = IF ParamContinue(cur, ev) THEN "loop" ELSE "done"
    /\ UNCHANGED <<Inputs, err, mid, i>>

\* lines 109-128: one iteration of the while loop, and its next test
ParamIter ==
    /\ alg = "param"
    /\ pc = "loop"
    /\ i < MaxIter
    /\ LET a == PickAxis(tMax)
           cur == [current_voxel EXCEPT ![a] = @ + StepDir(a)]
       IN  /\ current_voxel' = cur
           /\ tMax' = [tMax EXCEPT ![a] = FracAdd(@, TDelta(a))]
           /\ visited_voxels' = Append(visited_voxels, cur)
           /\ pc' = IF ParamContinue(cur, end_voxel) THEN "loop" ELSE "done"
    /\ i' = i + 1
    /\ UNCHANGED <<Inputs, start_voxel, end_voxel, err, mid>>

\* --------------------------------------------------- VoxelCastingBresenham
\* lines 137-167: indices, the not-a-number guards, deltas, error offset
BresStart ==
    /\ alg = "bres"
    /\ pc = "start"
    /\ \E sv \in LroundFloor(ray_start, nan_start, step_size),
          ev \in LroundFloor(ray_end, nan_end, step_size) :
          IF (\E a \in Axes : IsNanInt(sv[a])) \/ (\E a \in Axes : IsNanInt(ev[a]))
          THEN /\ pc' = "done"
               /\ UNCHANGED <<start_voxel, end_voxel, current_voxel, err, i>>
          ELSE /\ start_voxel' = sv
               /\ end_voxel' = ev
               /\ current_voxel' = sv
               /\ LET dm == Max3([a \in Axes |-> Abs(ev[a] - sv[a])])
                  IN  /\ err' = [a \in Axes |-> ErrorOffset(dm)]
                      /\ i' = dm
               /\ pc' = "loop"
    /\ UNCHANGED <<Inputs, visited_voxels, mid, tMax>>

\* lines 168-188: one pass of for (;;)
BresIter ==
    /\ alg = "bres"
    /\ pc = "loop"
    /\ visited_voxels' = Append(visited_voxels, current_voxel)
    /\ i' = i - 1
    /\ IF BresBreak(i)
       THEN /\ pc' = "check"
            /\ UNCHANGED <<current_voxel, err, mid>>
       ELSE LET m == [a \in Axes |-> err[a] - AbsDelta[a]]
            IN  /\ mid' = m
                /\ err' = [a \in Axes |-> BresRefill(m[a], DeltaMax)]
                /\ current_voxel' = [a \in Axes |->
                             IF BresUnderflow(m[a])
                             THEN current_voxel[a] + BresStep(a)
                             ELSE current_voxel[a]]
                /\ pc' = "loop"
    /\ UNCHANGED <<Inputs, start_voxel, end_voxel, tMax>>

\* lines 190-193: CHECK_EQ(x0, x1_init) ... and the return
BresCheck ==
    /\ alg = "bres"
    /\ pc = "check"
    /\ pc' = IF current_voxel = end_voxel THEN "done" ELSE "abort"
    /\ UNCHANGED <<Inputs, start_voxel, end_voxel, current_voxel,
                   visited_voxels, err, mid, i, tMax>>

\* --------------------------------------------------------- VoxelCastingDDA
\* lines 201-238
DdaStart ==
    /\ alg = "dda"
    /\ pc = "start"
    /\ \E sv \in LroundFloor(ray_start, nan_start, step_size),
          ev \in LroundFloor(ray_end, nan_end, step_size) :
          IF (\E a \in Axes : IsNanInt(sv[a])) \/ (\E a \in Axes : IsNanInt(ev[a]))
          THEN /\ pc' = "done"
               /\ UNCHANGED <<start_voxel, end_voxel, current_voxel>>
          ELSE /\ start_voxel' = sv
               /\ end_voxel' = ev
               /\ current_voxel' = sv
               /\ pc' = "loop"
    /\ err' = Zero3
    /\ i' = 0
    /\ UNCHANGED <<Inputs, visited_voxels, mid, tMax>>

\* lines 239-264: one iteration of for (i < max_delta)
DdaIter ==
    /\ alg = "dda"
    /\ pc = "loop"
    /\ i < DeltaMax
    /\ visited_voxels' = Append(visited_voxels, current_voxel)
    /\ LET m == [a \in Axes |-> err[a] + AbsDelta[a]]
       IN  /\ mid' = m
           /\ err' = [a \in Axes |->
                        IF DdaTrigger(m[a], DeltaMax) THEN m[a] - DeltaMax ELSE m[a]]
           /\ current_voxel' = [a \in Axes |->
                        IF DdaTrigger(m[a], DeltaMax)
                        THEN current_voxel[a] + DdaStep(a)
                        ELSE current_voxel[a]]
    /\ i' = i + 1
    /\ UNCHANGED <<Inputs, pc, start_voxel, end_voxel, tMax>>

\* lines 265-272: the last push_back, CHECK_EQ and the return
DdaFinish ==
    /\ alg = "dda"
    /\ pc = "loop"
    /\ ~(i < DeltaMax)
    /\ visited_voxels' = Append(visited_voxels, current_voxel)
    /\ pc' = IF current_voxel = end_voxel THEN "done" ELSE "abort"
    /\ UNCHANGED <<Inputs, start_voxel, end_voxel, current_voxel, err, mid, i, tMax>>

\* ----------------------------------------------------------- specification
Next ==
    \/ ParamStart
    \/ ParamIter
    \/ BresStart
    \/ BresIter
    \/ BresCheck
    \/ DdaStart
    \/ DdaIter
    \/ DdaFinish

Spec == Init /\ [][Next]_vars

\* the two integer traversals on endpoints with a not-a-number coordinate
NextNaN ==
    \/ BresStart
    \/ BresIter
    \/ BresCheck
    \/ DdaStart
    \/ DdaIter
    \/ DdaFinish

SpecNaN == InitNaN /\ [][NextNaN]_vars

\* ------------------------------------------------------------------ claims
\* floor(p / s) stated by its defining property: the q with q*s <= p < (q+1)*s
FloorOf(p, s) == CHOOSE q \in (0 - Abs(p)) .. Abs(p) : q * s <= p /\ p < (q + 1) * s

StartIdx == [a \in Axes |-> FloorOf(ray_start[a], step_size)]

EndIdx == [a \in Axes |-> FloorOf(ray_end[a], step_size)]

IdxDelta == [a \in Axes |-> Abs(EndIdx[a] - StartIdx[a])]

MaxIdxDelta ==
    LET d == IdxDelta
    IN  CHOOSE m \in {d[a] : a \in Axes} : \A a \in Axes : d[a] <= m

Manhattan == LET d == IdxDelta IN d[1] + d[2] + d[3]

Last(s) == s[Len(s)]

Integer == alg \in {"bres", "dda"}

LoopOver == pc \in {"check", "done", "abort"}

\* some axis of VoxelCasting is beyond its end index in its step direction
Overshot == \E a \in Axes : (current_voxel[a] - end_voxel[a]) * StepDir(a) > 0

\* C1: for finite endpoints VoxelCastingBresenham and VoxelCastingDDA leave
\* their loop with the current index equal to the end voxel
\* floor(ray_end/step_size), so CHECK_EQ never fails, and the returned path
\* starts at floor(ray_start/step_size) and ends at the end voxel.
C1_EndReached ==
    Integer =>
        /\ pc # "abort"
        /\ pc = "check" => current_voxel = EndIdx
        /\ pc = "done" =>
              /\ Len(visited_voxels) >= 1
              /\ visited_voxels[1] = StartIdx
              /\ Last(visited_voxels) = EndIdx
              /\ current_voxel = EndIdx

C1_Witness ==
    /\ alg = "dda"
    /\ pc = "done"
    /\ step_size = 2
    /\ \A a \in Axes : StartIdx[a] < 0 /\ EndIdx[a] # StartIdx[a]
    /\ IdxDelta[1] # IdxDelta[2]

\* C2: once the loop of VoxelCastingBresenham or VoxelCastingDDA is over, the
\* path holds exactly max(|dx|,|dy|,|dz|) + 1 elements, the deltas taken
\* between the voxel indices of the two endpoints.
C2_PathLength ==
    (Integer /\ LoopOver) => Len(visited_voxels) = MaxIdxDelta + 1

C2_Witness ==
    /\ alg = "bres"
    /\ pc = "done"
    /\ ray_start = <<0, 0, 0>>
    /\ ray_end = <<2, 2, 2>>
    /\ step_size = 1
    /\ Len(visited_voxels) = 3

\* C3: VoxelCasting can run forever: an axis is stepped past its end index
\* only on rays with a negative direction component on an axis whose start
\* and end index differ, and once an axis is past its end index it stays
\* past it and the while loop goes on.
C3_NonTermination ==
    [][(alg = "param" /\ pc = "loop" /\ Overshot) =>
          /\ \E a \in Axes : Ray[a] < 0 /\ start_voxel[a] # end_voxel[a]
          /\ pc' = "loop"
          /\ Overshot'
          /\ current_voxel' # end_voxel']_vars

\* a run still looping, past its end index, after more iterations than any
\* walk between two voxels of the grid needs
C3_Witness ==
    /\ alg = "param"
    /\ pc = "loop"
    /\ Overshot
    /\ i = MaxIter
    /\ i > Manhattan
    /\ current_voxel # end_voxel

\* C4: with a not-a-number coordinate VoxelCastingBresenham and
\* VoxelCastingDDA return an empty path: no voxel is ever emitted and the
\* postcondition assertion is never reached.
C4_NaNEmptyPath ==
    /\ visited_voxels = <<>>
    /\ pc \notin {"check", "abort"}

\* C5: when the start and end voxel index are equal (a zero-length ray
\* included) each of the three functions returns the one-element path
\* <<floor(ray_start/step_size)>>.
C5_SingleVoxel ==
    (StartIdx = EndIdx) =>
        /\ pc # "abort"
        /\ Len(visited_voxels) <= 1
        /\ LoopOver => visited_voxels = <<StartIdx>>
        /\ (alg = "param" /\ pc # "start") => pc = "done"

C5_Witness ==
    /\ pc = "done"
    /\ StartIdx = EndIdx
    /\ ray_start # ray_end
    /\ StartIdx[1] < 0
    /\ visited_voxels = <<StartIdx>>

\* the axes on which the two voxel indices differ
DiffAxes == {a \in Axes : StartIdx[a] # EndIdx[a]}

\* the straight walk along the one axis that differs
Line ==
    LET a == CHOOSE x \in DiffAxes : TRUE
        dir == IF EndIdx[a] > StartIdx[a] THEN 1 ELSE 0 - 1
    IN  [k \in 1 .. (IdxDelta[a] + 1) |->
            [StartIdx EXCEPT ![a] = @ + (k - 1) * dir]]

IsPrefix(s, t) == Len(s) <= Len(t) /\ \A k \in 1 .. Len(s) : s[k] = t[k]

\* C6: when the voxel indices differ on exactly one axis, in either
\* direction, each of the three functions terminates with the same path: the
\* start voxel, then one unit at a time along that axis up to the end voxel.
C6_SingleAxis ==
    (Cardinality(DiffAxes) = 1) =>
        /\ pc # "abort"
        /\ IsPrefix(visited_voxels, Line)
        /\ pc = "done" => visited_voxels = Line
        /\ (alg = "param" /\ pc = "loop") => (i < IdxDelta[CHOOSE x \in DiffAxes : TRUE])

C6_Witness ==
    /\ alg = "param"
    /\ pc = "done"
    /\ DiffAxes = {2}
    /\ EndIdx[2] < StartIdx[2]
    /\ Ray[1] < 0
    /\ Ray[3] > 0
    /\ visited_voxels = Line

\* C7: in all three functions, at every point of the run, no two adjacent
\* elements of the path are equal.
C7_NoAdjacentDuplicates ==
    \A k \in 1 .. (Len(visited_voxels) - 1) : visited_voxels[k] # visited_voxels[k + 1]

\* a prefix of a run of VoxelCasting that never ends, begun by the shift
C7_Witness ==
    /\ alg = "param"
    /\ \E a \in Axes : Ray[a] < 0 /\ start_voxel[a] # end_voxel[a]
    /\ Len(visited_voxels) = MaxIter + 2
    /\ pc = "loop"

\* the axes the last pass of the Bresenham loop stepped
BresStepped ==
    {a \in Axes : current_voxel[a] # Last(visited_voxels)[a]}

\* C8 as stated: in VoxelCastingBresenham two axes are stepped by the same
\* iteration only if their deltas are equal.
C8_OnlyEqualDeltas ==
    (alg = "bres" /\ pc = "loop" /\ Len(visited_voxels) >= 1) =>
        LET d == IdxDelta
        IN  \A a \in BresStepped : \A b \in BresStepped : d[a] = d[b]

\* C8 amended: an iteration of VoxelCastingBresenham steps an axis at most
\* once, steps axes of equal delta together, steps every axis whose delta is
\* dm, never steps an axis of delta 0, and takes no axis further from the
\* start than its delta (axes of different deltas may be stepped by the same
\* iteration).
C8_StepsPerIteration ==
    [][(alg = "bres" /\ pc = "loop" /\ pc' = "loop") =>
          LET S == {a \in Axes : current_voxel'[a] # current_voxel[a]}
              d == IdxDelta
              dm == MaxIdxDelta
          IN  /\ \A a \in S : Abs(current_voxel'[a] - current_voxel[a]) = 1
              /\ \A a \in Axes : \A b \in Axes : d[a] = d[b] => (a \in S <=> b \in S)
              /\ \A a \in Axes : d[a] = dm => a \in S
              /\ \A a \in Axes : d[a] = 0 => a \notin S
              /\ \A a \in Axes : Abs(current_voxel'[a] - StartIdx[a]) <= d[a]]_vars

\* one iteration stepped two axes whose deltas differ
C8_Witness ==
    /\ alg = "bres"
    /\ pc = "loop"
    /\ Len(visited_voxels) >= 1
    /\ \E a \in BresStepped : \E b \in BresStepped : IdxDelta[a] # IdxDelta[b]

\* a tMax not larger than the others
IsSmallest(t, a) == \A b \in Axes : ~Less(t[b], t[a])

\* C9: on a ray with no negative direction component VoxelCasting ends after
\* exactly |dx|+|dy|+|dz| iterations; every iteration steps one axis of
\* smallest tMax by +1, no axis passes its end index, and the path has
\* |dx|+|dy|+|dz|+1 elements, the last one the end voxel.
C9_NonNegativeRay ==
    [][(alg = "param" /\ \A a \in Axes : Ray[a] >= 0) =>
          /\ \A a \in Axes : current_voxel'[a] <= EndIdx[a]
          /\ i' <= Manhattan
          /\ Len(visited_voxels') = i' + 1
          /\ pc' = "done" <=> i' = Manhattan
          /\ pc' = "done" => Last(visited_voxels') = EndIdx
          /\ pc = "loop" =>
                \E a \in Axes :
                    /\ IsSmallest(tMax, a)
                    /\ current_voxel' = [current_voxel EXCEPT ![a] = @ + 1]
                    /\ Last(visited_voxels') = current_voxel']_vars

C9_Witness ==
    /\ alg = "param"
    /\ pc = "done"
    /\ \A a \in Axes : Ray[a] > 0 /\ IdxDelta[a] >= 2
    /\ i = Manhattan
    /\ Len(visited_voxels) = Manhattan + 1

\* C10: the accumulators stay within the dominant delta: in
\* VoxelCastingBresenham (dm > 0) each is in 0 .. dm-1 after every iteration
\* and never below -dm inside one; in VoxelCastingDDA (max_delta > 0)
\* -max_delta <= 2*error < max_delta after every iteration, and neither an
\* accumulator nor error << 1 exceeds 3*max_delta in magnitude.
C10_AccumulatorBounds ==
    LET dm == MaxIdxDelta
    IN  (pc # "start" /\ dm > 0) =>
            /\ alg = "bres" =>
                  \A a \in Axes :
                      /\ 0 <= err[a] /\ err[a] <= dm - 1
                      /\ mid[a] >= 0 - dm
                      /\ mid[a] <= dm - 1
            /\ alg = "dda" =>
                  \A a \in Axes :
                      /\ 0 - dm <= 2 * err[a] /\ 2 * err[a] < dm
                      /\ Abs(mid[a]) <= 3 * dm
                      /\ Abs(2 * mid[a]) <= 3 * dm

\* the lower bound of the DDA error is attained
C10_Witness ==
    /\ alg = "dda"
    /\ pc = "loop"
    /\ MaxIdxDelta >= 2
    /\ \E a \in Axes : 2 * err[a] = 0 - MaxIdxDelta
====
